---- MODULE Spec2Model ----
(***************************************************************************)
(* Listener estimation engine of melody-now: the live estimator of         *)
(* melody_core.py and the curve estimator of backfill_listeners.py.        *)
(*                                                                         *)
(* Real numbers are fixed-point integers in units of 1/Scale.  Listener    *)
(* counts are kept in tenths (CountUnit) before the final rounding.        *)
(***************************************************************************)
EXTENDS Integers, Sequences, FiniteSets, TLC

\* ---------------------------------------------------------------------------
\* Fixed-point arithmetic standing for Python floats and the math module
\* ---------------------------------------------------------------------------
Scale == 100 * 100

CountUnit == 2 * 5

Abs(x) == IF x < 0 THEN -x ELSE x

Max2(a, b) == IF a >= b THEN a ELSE b

Min2(a, b) == IF a <= b THEN a ELSE b

\* a * b of two fixed-point numbers, rounded to the nearest unit
MulS(a, b) == (a * b + Scale \div 2) \div Scale

\* round(): Python rounds a float to the nearest integer, ties to even.
\* x is a count in units of 1/CountUnit; the result is a whole number.
round(x) ==
  LET q == x \div CountUnit
      r == x % CountUnit
  IN  IF 2 * r < CountUnit THEN q
      ELSE IF 2 * r > CountUnit THEN q + 1
      ELSE IF q % 2 = 0 THEN q ELSE q + 1

RECURSIVE ExpSeries(_, _, _)
\* sum of the terms term_k = term_(k-1) * (-x) / k of exp(-x), from term k on
ExpSeries(x, term, k) ==
  IF term = 0 \/ k > 12 THEN 0
  ELSE term + ExpSeries(x, -(MulS(Abs(term), x) \div k) * (IF term > 0 THEN 1 ELSE -1), k + 1)

RECURSIVE ExpNeg(_)
\* math.exp(-x) for x >= 0
ExpNeg(x) ==
  IF x >= 12 * Scale THEN 0
  ELSE IF x > Scale \div 2
       THEN LET r == ExpNeg(x \div 2)
                s == ExpNeg(x - x \div 2)
            IN  MulS(r, s)
       ELSE ExpSeries(x, Scale, 1)

RECURSIVE LnSearch(_, _, _)
\* the y in lo..hi with exp(-y) closest above x (exp(-y) is decreasing in y)
LnSearch(x, lo, hi) ==
  IF hi - lo <= 1 THEN lo
  ELSE LET mid == (lo + hi) \div 2
       IN  IF ExpNeg(mid) > x THEN LnSearch(x, mid, hi) ELSE LnSearch(x, lo, mid)

\* -math.log(x) for 0 < x <= 1
NegLn(x) == IF x >= Scale THEN 0 ELSE LnSearch(x, 0, 12 * Scale)

\* x ** p for 0 <= x <= 1 and p > 0
Pow(x, p) ==
  IF x <= 0 THEN 0
  ELSE IF x >= Scale THEN Scale
  ELSE ExpNeg(MulS(p, NegLn(x)))

RECURSIVE SqrtSearch(_, _, _)
SqrtSearch(n, lo, hi) ==
  IF hi - lo <= 1 THEN lo
  ELSE LET mid == (lo + hi) \div 2
       IN  IF mid * mid <= n THEN SqrtSearch(n, mid, hi) ELSE SqrtSearch(n, lo, mid)

\* math.sqrt(v) for a fixed-point v >= 0: sqrt(v/Scale)*Scale = sqrt(v*100)*10
Sqrt(v) == SqrtSearch(v * 100, 0, 46000) * 10

TwoPi == 2 * 31416

RECURSIVE CosSeries(_, _, _)
\* terms of cos(x): term_k = -term_(k-1) * x*x / ((2k-1)(2k))
CosSeries(x, term, k) ==
  IF term = 0 \/ k > 8 THEN 0
  ELSE term + CosSeries(x, -((MulS(MulS(Abs(term), x), x) \div ((2 * k - 1) * (2 * k)))
                              * (IF term > 0 THEN 1 ELSE -1)), k + 1)

\* math.cos(2*pi*t) for an angle of t turns
CosTurn(t) ==
  LET m == t % Scale
      f == IF m > Scale \div 2 THEN Scale - m ELSE m
  IN  IF f > Scale \div 4
      THEN -CosSeries(MulS(TwoPi, Scale \div 2 - f), Scale, 1)
      ELSE CosSeries(MulS(TwoPi, f), Scale, 1)

\* math.sin(2*pi*t) = cos(2*pi*(t - 1/4))
SinTurn(t) == CosTurn(t - Scale \div 4)

\* ---------------------------------------------------------------------------
\* Process environment and module load (os.environ.get + float)
\* ---------------------------------------------------------------------------
VARIABLES environ, loaded

\* os.environ is a dictionary from names to texts; only these names are read
\* by the parameters modelled as overridable
EnvNames == {"WEEKDAY_PEAK", "WEEKEND_PEAK", "NIGHT_MIN"}

Modules == {"melody_core", "backfill_listeners"}

Digits == {"0", "1", "2", "3", "4", "5", "6", "7", "8", "9"}

DigitValue(c) ==
  CASE c = "0" -> 0 [] c = "1" -> 1 [] c = "2" -> 2 [] c = "3" -> 3 [] c = "4" -> 4
    [] c = "5" -> 5 [] c = "6" -> 6 [] c = "7" -> 7 [] c = "8" -> 8 [] c = "9" -> 9

\* float(text) raises ValueError unless the text denotes a number; the texts
\* of the model are digit strings or no number at all
FloatRaises(text) ==
  \/ Len(text) = 0
  \/ \E i \in 1..Len(text) : SubSeq(text, i, i) \notin Digits

RECURSIVE float(_)
\* float(text) of a digit string: the number it denotes (whole listeners)
float(text) ==
  IF Len(text) = 0 THEN 0
  ELSE 10 * float(SubSeq(text, 1, Len(text) - 1)) + DigitValue(SubSeq(text, Len(text), Len(text)))

\* float(os.environ.get(name, default))
EnvFloat(name, default) ==
  IF name \in DOMAIN environ THEN float(environ[name]) ELSE default

\* backfill_listeners.py parameters
bf_WEEKDAY_PEAK == EnvFloat("WEEKDAY_PEAK", 3260)

bf_WEEKEND_PEAK == EnvFloat("WEEKEND_PEAK", 1820)

bf_NIGHT_MIN == EnvFloat("NIGHT_MIN", 160)

NIGHT_CENTER == 25000

NIGHT_WIDTH == 30000

NIGHT_STRENGTH == 9600

NIGHT_POWER == 16000

NIGHT_SFLOOR == 500

EVENING_TAIL_START == 220000

EVENING_TAIL_STRENGTH == 3500

EVENING_TAIL_SLOPE == 6000

MDAY_WOBBLE == 300

MDAY_WOBBLE_PHASE == 12000

JITTER_SIGMA == 600

JITTER_CLIP == 1200

\* melody_core.py parameters
SLOW_BUCKET_S == 30

core_WEEKDAY_PEAK == EnvFloat("WEEKDAY_PEAK", 3200)

core_WEEKEND_PEAK == EnvFloat("WEEKEND_PEAK", 2000)

core_NIGHT_MIN == EnvFloat("NIGHT_MIN", 180)

SLOW_SIGMA == 400

SLOW_CLIP == 800

FAST_SIGMA == 200

FAST_CLIP == 400

\* ---------------------------------------------------------------------------
\* backfill_listeners.py: day shapes, normalisation, night damping
\* ---------------------------------------------------------------------------
\* (x - mu) / sigma, or 45000 when it is larger than 4.5 (exp(-0.5*4.5^2) < 1e-4)
ZScore(x, mu, sigma) == Min2(45000, (Abs(x - mu) * 100) \div (sigma \div 100))

_gauss(x, mu, sigma, amp) ==
  LET q == ZScore(x, mu, sigma)
  IN  MulS(amp, ExpNeg((q * q) \div (2 * Scale)))

_shape_weekday_raw(h) ==
  _gauss(h, 78000, 12000, 9000) + _gauss(h, 125000, 13000, 4500)
    + _gauss(h, 173000, 13000, 8500) + _gauss(h, 205000, 18000, 3500)

_shape_weekend_raw(h) ==
  _gauss(h, 100000, 17000, 3500) + _gauss(h, 140000, 20000, 9500)
    + _gauss(h, 195000, 20000, 5500)

RECURSIVE SeqMin(_, _, _)
\* min(arr[lo..hi]), by halving the range
SeqMin(arr, lo, hi) ==
  IF lo = hi THEN arr[lo]
  ELSE LET mid == (lo + hi) \div 2
       IN  Min2(SeqMin(arr, lo, mid), SeqMin(arr, mid + 1, hi))

RECURSIVE SeqMax(_, _, _)
SeqMax(arr, lo, hi) ==
  IF lo = hi THEN arr[lo]
  ELSE LET mid == (lo + hi) \div 2
       IN  Max2(SeqMax(arr, lo, mid), SeqMax(arr, mid + 1, hi))

\* _normalize dividing v instead of v - a_min
_normalize_unshifted(arr) ==
  LET a_min == SeqMin(arr, 1, Len(arr))
      a_max == SeqMax(arr, 1, Len(arr))
  IN  IF a_max <= a_min THEN [i \in 1..Len(arr) |-> 0]
      ELSE [i \in 1..Len(arr) |-> (arr[i] * Scale) \div (a_max - a_min)]

_normalize(arr) ==
  LET a_min == SeqMin(arr, 1, Len(arr))
      a_max == SeqMax(arr, 1, Len(arr))
  IN  IF a_max <= a_min THEN [i \in 1..Len(arr) |-> 0]
      ELSE [i \in 1..Len(arr) |-> ((arr[i] - a_min) * Scale) \div (a_max - a_min)]

_circ_dist_hours(a, b) ==
  LET d == Abs(a - b)
  IN  Min2(d, 24 * Scale - d)

_sigmoid(x) ==
  IF x >= 0 THEN (Scale * Scale) \div (Scale + ExpNeg(x))
  ELSE LET e == ExpNeg(-x) IN (e * Scale) \div (Scale + e)

_night_depressor(h) ==
  LET w      == Max2(1000, NIGHT_WIDTH)
      q      == Min2(45000, (_circ_dist_hours(h, NIGHT_CENTER) * 100) \div (w \div 100))
      valley == ExpNeg((q * q) \div (2 * Scale))
      dep1   == Pow(Max2(0, Min2(Scale, Scale - MulS(NIGHT_STRENGTH, valley))), NIGHT_POWER)
      sl     == Max2(1000, EVENING_TAIL_SLOPE)
      tail   == _sigmoid(((h - EVENING_TAIL_START) * 100) \div (sl \div 100))
      dep2   == Scale - MulS(EVENING_TAIL_STRENGTH, tail)
  IN  Max2(0, Min2(Scale, MulS(dep1, dep2)))

GridPerHour == 12

GridLen == 24 * GridPerHour + 1

\* grid = [i/12 for i in range(0, 24*12 + 1)], 1-indexed here
Grid == [i \in 1..GridLen |-> ((i - 1) * Scale) \div GridPerHour]

NormWeekday == _normalize([i \in 1..GridLen |-> _shape_weekday_raw(Grid[i])])

NormWeekend == _normalize([i \in 1..GridLen |-> _shape_weekend_raw(Grid[i])])

_precompute_norm(is_weekend) ==
  <<Grid, IF is_weekend THEN NormWeekend ELSE NormWeekday>>

RECURSIVE ArgMinDist(_, _, _, _)
\* min(range(len(grid)), key=lambda i: abs(grid[i] - h)) over the indices
\* lo..hi: the first index at the least distance
ArgMinDist(grid, h, lo, hi) ==
  IF lo = hi THEN lo
  ELSE LET mid == (lo + hi) \div 2
           l   == ArgMinDist(grid, h, lo, mid)
           r   == ArgMinDist(grid, h, mid + 1, hi)
       IN  IF Abs(grid[r] - h) < Abs(grid[l] - h) THEN r ELSE l

\* 1.0 + MDAY_WOBBLE * sin(2*pi*(h/24) + MDAY_WOBBLE_PHASE)
Wobble(h) ==
  Scale + MulS(MDAY_WOBBLE, SinTurn(h \div 24 + (MDAY_WOBBLE_PHASE * Scale) \div TwoPi))

\* every quarter of an hour of the day
QuarterHours == {(k * Scale) \div 4 : k \in 0..95}

\* the hours of day the model evaluates the curve at
AllHours == {2 * Scale + Scale \div 2, 16 * Scale, 17 * Scale + Scale \div 3}
              \cup QuarterHours

\* the grid index, the night depressor and the wobble at each hour of the
\* model, tabulated once (none depends on the state)
NearestIndexAt == [h \in AllHours |-> ArgMinDist(Grid, h, 1, GridLen)]

NightDepressorAt == [h \in AllHours |-> _night_depressor(h)]

WobbleAt == [h \in AllHours |-> Wobble(h)]

\* lines 98-104 of _s01 without the two max(NIGHT_SFLOOR, ...)
ShapeFromTableUnfloored(table, h) ==
  LET day_norm == table[2]
      idx      == NearestIndexAt[h]
      s1       == MulS(day_norm[idx], NightDepressorAt[h])
      s2       == MulS(s1, WobbleAt[h])
  IN  Min2(Scale, s2)

\* lines 98-104 of _s01, on the table read from the cache (the grid of every
\* cached table is Grid)
ShapeFromTable(table, h) ==
  LET day_norm == table[2]
      idx      == NearestIndexAt[h]
      s1       == Max2(NIGHT_SFLOOR, MulS(day_norm[idx], NightDepressorAt[h]))
      s2       == MulS(s1, WobbleAt[h])
  IN  Min2(Scale, Max2(NIGHT_SFLOOR, s2))

\* _s01(h, is_weekend) run from its first to its last line by one caller: the
\* table it reads back from the cache is _precompute_norm(is_weekend)
_s01(h, is_weekend) == ShapeFromTable(_precompute_norm(is_weekend), h)

\* ---------------------------------------------------------------------------
\* datetime values (Europe/Bratislava, the week of Monday 13 October 2025)
\* ---------------------------------------------------------------------------
\* a datetime is [day |-> days after Monday 2025-10-13, hour, minute]
weekday(dt) == dt.day % 7

\* the epoch second of 2025-10-13T00:00:00+02:00
Epoch0 == 20373 * 86400 + 22 * 3600

\* dt.timestamp()
timestamp(dt) == Epoch0 + dt.day * 86400 + dt.hour * 3600 + dt.minute * 60

Pad2(n) == IF n < 10 THEN "0" \o ToString(n) ELSE ToString(n)

\* dt.isoformat()
isoformat(dt) ==
  "2025-10-" \o ToString(13 + dt.day) \o "T" \o Pad2(dt.hour) \o ":" \o Pad2(dt.minute)
    \o ":00+02:00"

\* h = dt.hour + dt.minute / 60.0
HourOfDay(dt) == dt.hour * Scale + (dt.minute * Scale) \div 60

\* ---------------------------------------------------------------------------
\* Hashes.  hashlib digests and the generator random.Random(seed) are fixed
\* functions of the seed string whose values the model does not compute:
\* they are chosen once, in Init, and never change.
\*   rngOf[key]  = the first two random() outputs of _rng_from_key(key)
\*   md5Of[key]  = the two 16-hex-digit halves of md5(key), as integers
\* ---------------------------------------------------------------------------
VARIABLES rngOf, md5Of

DT(d, h, m) == [day |-> d, hour |-> h, minute |-> m]

Mon0230 == DT(0, 2, 30)

Sat0230 == DT(5, 2, 30)

Mon1720 == DT(0, 17, 20)

Sat1600 == DT(5, 16, 0)

\* a Monday and a Saturday at every quarter of an hour
QuarterDTs == {DT(d, h, m) : d \in {0, 5}, h \in 0..23, m \in {0, 15, 30, 45}}

\* the datetimes the model calls the estimators with
AllDTs == {Mon0230, Sat0230, Mon1720, Sat1600} \cup QuarterDTs

\* the first two random() outputs of a generator: a sample far below zero
\* (cos = -1, 1 - r2 = 0.01) and a moderate one above zero (cos = 1, 1 - r2 = 0.5)
RngDraws == {<<5000, 9900>>, <<0, 5000>>}

\* md5 halves: clipped above, clipped below, and -1 sigma
Md5Draws == {<<0, 0>>, <<0, 5000000>>, <<2006065306, 5000000>>}

\* -2 * log(u) under a square root, times cos(2*pi*t): the Box-Muller sample
BoxMuller(u, t) == MulS(Sqrt(2 * NegLn(u)), CosTurn(t))

\* random.Random.gauss(mu, sigma) on a fresh generator:
\*   x2pi = random() * TWOPI; g2rad = sqrt(-2.0 * log(1.0 - random()))
\*   return mu + cos(x2pi) * g2rad * sigma
StandardNormal(rng) == BoxMuller(Scale - rng[2], rng[1])

\* StandardNormal, tabulated once over the draws of the model
StandardNormalOf == [rng \in RngDraws |-> StandardNormal(rng)]

gauss(rng, mu, sigma) == mu + MulS(StandardNormalOf[rng], sigma)

_rng_from_key(key) == rngOf[key]

\* _clipped_gauss without the clip of line 94
_clipped_gauss_unclipped(rng, sigma, clip) == gauss(rng, 0, sigma)

_clipped_gauss(rng, sigma, clip) ==
  LET x == gauss(rng, 0, sigma)
  IN  Max2(-clip, Min2(clip, x))

\* ((a % 10_000_000) + 0.5) / 10_000_001.0
Uniform01(a) == (((a % 10000000) * 2 + 1) * 5) \div (10000001 \div 1000)

\* z of _deterministic_jitter for the digest halves d = <<a, b>>.
\* max(u, 1e-9) keeps the logarithm defined: one unit here.
JitterZ(d) ==
  LET u1 == Uniform01(d[1])
      u2 == Uniform01(d[2])
  IN  BoxMuller(Max2(u1, 1), Max2(u2, 1))

\* JitterZ, tabulated once over the digests of the model
JitterZOf == [d \in Md5Draws |-> JitterZ(d)]

\* _deterministic_jitter without the clip of line 120
_deterministic_jitter_unclipped(seed_key, sigma, clip) ==
  Scale + MulS(sigma, JitterZOf[md5Of[seed_key]])

\* 1 + eps
_deterministic_jitter(seed_key, sigma, clip) ==
  LET z   == JitterZOf[md5Of[seed_key]]
      eps == Max2(-clip, Min2(clip, MulS(sigma, z)))
  IN  Scale + eps

\* ---------------------------------------------------------------------------
\* backfill_listeners.py: expected count and estimate (counts in tenths)
\* ---------------------------------------------------------------------------
\* _expected_count with the peak in place of the span peak - NIGHT_MIN
_expected_count_full_peak(dt, table) ==
  LET is_weekend == weekday(dt) >= 5
      s          == ShapeFromTable(table, HourOfDay(dt))
      peak       == IF is_weekend THEN bf_WEEKEND_PEAK ELSE bf_WEEKDAY_PEAK
  IN  bf_NIGHT_MIN * CountUnit + MulS(s, peak * CountUnit)

\* table is what _s01 reads from its cache for the day-type of dt
_expected_count(dt, table) ==
  LET h          == HourOfDay(dt)
      is_weekend == weekday(dt) >= 5
      s          == ShapeFromTable(table, h)
      peak       == IF is_weekend THEN bf_WEEKEND_PEAK ELSE bf_WEEKDAY_PEAK
  IN  bf_NIGHT_MIN * CountUnit + MulS(s, (peak - bf_NIGHT_MIN) * CountUnit)

\* estimate_from_curve without line 127, the clamp to [NIGHT_MIN, peak]
estimate_from_curve_unclamped(dt, item_key, table) ==
  round(MulS(_expected_count(dt, table),
             _deterministic_jitter(item_key, JITTER_SIGMA, JITTER_CLIP)))

estimate_from_curve(dt, item_key, table) ==
  LET base     == _expected_count(dt, table)
      v        == MulS(base, _deterministic_jitter(item_key, JITTER_SIGMA, JITTER_CLIP))
      peak_cap == IF weekday(dt) >= 5 THEN bf_WEEKEND_PEAK ELSE bf_WEEKDAY_PEAK
      clamped  == Max2(bf_NIGHT_MIN * CountUnit, Min2(peak_cap * CountUnit, v))
  IN  round(clamped)

\* ---------------------------------------------------------------------------
\* melody_core.py: day curve and live estimate
\* ---------------------------------------------------------------------------
\* exp(-((h - mu) / w) ** 2); beyond 4 widths the value is below 1e-4
Bump(h, mu, w) ==
  LET q == Min2(40000, (Abs(h - mu) * 100) \div (w \div 100))
  IN  ExpNeg((q * q) \div Scale)

_day_curve_base(dt) ==
  LET h    == HourOfDay(dt)
      m1   == Bump(h, 95000, 22000)
      m2   == Bump(h, 160000, 28000)
      base == Max2(m1, m2)
      pen  == IF 0 <= h /\ h < 5 * Scale
              THEN MulS(base, 2500 + MulS(1500, h \div 5))
              ELSE base
  IN  Max2(0, Min2(Scale, pen))

\* _day_curve_base, tabulated once over the datetimes of the model
DayCurveBaseOf == [dt \in AllDTs |-> _day_curve_base(dt)]

None == << >>

Some(n) == <<n>>

\* the live bucket with the client's milliseconds rounded up to seconds
LiveBucketCeilSeconds(dt, ts_ms) ==
  IF ts_ms = None THEN timestamp(dt) \div SLOW_BUCKET_S
  ELSE (-((-ts_ms[1]) \div 1000)) \div SLOW_BUCKET_S

\* the live bucket of lines 170-173
LiveBucket(dt, ts_ms) ==
  IF ts_ms = None THEN timestamp(dt) \div SLOW_BUCKET_S
  ELSE (ts_ms[1] \div 1000) \div SLOW_BUCKET_S

\* the slow seed taken from the datetime whatever the key
SlowSeedIgnoringKey(dt, seed_key) == "slow::" \o isoformat(dt)

\* f"slow::{seed_key or dt.isoformat()}"
SlowSeed(dt, seed_key) == "slow::" \o (IF seed_key = "" THEN isoformat(dt) ELSE seed_key)

\* f"fast::{bucket}"
FastSeed(bucket) == "fast::" \o ToString(bucket)

\* the debug dictionary of estimate_listeners plus the two seed strings;
\* the function's result is the field value
estimate_listeners(dt, seed_key, ts_ms) ==
  LET is_weekend == weekday(dt) >= 5
      peak       == IF is_weekend THEN core_WEEKEND_PEAK ELSE core_WEEKDAY_PEAK
      base_rel   == DayCurveBaseOf[dt]
      base_abs   == core_NIGHT_MIN * CountUnit
                      + MulS((peak - core_NIGHT_MIN) * CountUnit, base_rel)
      slow_seed  == SlowSeed(dt, seed_key)
      slow_eps   == _clipped_gauss(_rng_from_key(slow_seed), SLOW_SIGMA, SLOW_CLIP)
      bucket     == LiveBucket(dt, ts_ms)
      fast_seed  == FastSeed(bucket)
      fast_eps   == _clipped_gauss(_rng_from_key(fast_seed), FAST_SIGMA, FAST_CLIP)
      val        == Max2(0, MulS(base_abs, Scale + slow_eps + fast_eps))
  IN  [value |-> round(val), base_rel |-> base_rel, base_abs |-> base_abs,
       slow_eps |-> slow_eps, fast_eps |-> fast_eps, peak |-> peak,
       night_min |-> core_NIGHT_MIN, weekend |-> is_weekend,
       bucket |-> bucket, slow_seed |-> slow_seed, fast_seed |-> fast_seed]

\* ---------------------------------------------------------------------------
\* Program state
\* ---------------------------------------------------------------------------
\* has_cache, s01_cache : hasattr(_s01, "_cache") and the dictionary _s01._cache
\* writes               : how often each key of the cache was stored (per process)
\* first, last          : an earlier call kept for comparison, and the latest call
\* pc, targ, tres       : per thread, the line of _s01 it is at, its arguments
\*                        and the outcome of its latest finished call
VARIABLES has_cache, s01_cache, writes, first, last, pc, targ, tres

\* probe          : the latest application of a function called on its own
\* response       : the answer of the latest GET /listeners
\* now            : time.time(), in tenths of a second
\* _MB_LAST_CALL  : the module global of enrich_metadata.py, same unit
\* mb_requests    : the times of the MusicBrainz requests.get calls so far
\* playlist_file  : the content of data/playlist.json
\* cache_file     : the content of data/meta_cache.json
\* enrich_calls   : the keys enrich_pair was called for in the latest run
VARIABLES probe, response, now, _MB_LAST_CALL, mb_requests, playlist_file, cache_file,
          enrich_calls

\* the state of the estimators, and the state of the service and the batch jobs
core == <<environ, loaded, rngOf, md5Of, has_cache, s01_cache, writes, first, last,
          pc, targ, tres>>

ext == <<probe, response, now, _MB_LAST_CALL, mb_requests, playlist_file, cache_file,
         enrich_calls>>

vars == <<core, ext>>

NoProbe == [fn |-> "none"]

NoResponse == [status |-> 0, body |-> "", cause |-> "none"]

\* before any request or job
InitJobs ==
  /\ response = NoResponse
  /\ _MB_LAST_CALL = 0
  /\ mb_requests = << >>
  /\ playlist_file = << >>
  /\ cache_file = [k \in {} |-> 0]
  /\ enrich_calls = << >>

\* before any request, job or call
InitExt ==
  /\ probe = NoProbe
  /\ now = 0
  /\ InitJobs

NumThreads == 2

Threads == 1..NumThreads

EmptyDict == [k \in {} |-> 0]

\* d[key] = value on a dictionary
DictStore(d, key, value) ==
  [k \in DOMAIN d \cup {key} |-> IF k = key THEN value ELSE d[k]]

NoCall ==
  [fn |-> "none", dt |-> DT(0, 0, 0), key |-> "", ts |-> None, cached |-> FALSE,
   value |-> 0, dbg |-> [none |-> TRUE]]

\* one cache key for both day-types
CacheKeyAlwaysWd(is_weekend) == "wd"

\* key = "we" if is_weekend else "wd"
CacheKey(is_weekend) == IF is_weekend THEN "we" ELSE "wd"

\* ---------------------------------------------------------------------------
\* Module load: the module-level float(os.environ.get(...)) assignments
\* ---------------------------------------------------------------------------
Load(m) ==
  /\ loaded[m] = "no"
  /\ loaded' = [loaded EXCEPT ![m] =
                  IF \E n \in EnvNames : n \in DOMAIN environ /\ FloatRaises(environ[n])
                  THEN "ValueError" ELSE "ok"]
  /\ UNCHANGED <<ext, environ, rngOf, md5Of, has_cache, s01_cache, writes, first, last,
                 pc, targ, tres>>

\* a new process: modules not yet imported, no cache attribute.  The hash
\* functions and the environment are the same in every process.
Restart ==
  /\ \E m \in Modules : loaded[m] # "no"
  /\ loaded' = [m \in Modules |-> "no"]
  /\ has_cache' = FALSE
  /\ s01_cache' = EmptyDict
  /\ writes' = [k \in {"wd", "we"} |-> 0]
  /\ UNCHANGED <<ext, environ, rngOf, md5Of, first, last, pc, targ, tres>>

\* the observer keeps the earlier call or takes this one
Observe(rec) ==
  /\ last' = rec
  /\ first' \in {first, rec}
  /\ first' # NoCall

\* ---------------------------------------------------------------------------
\* melody_core.estimate_listeners(dt, seed_key=..., ts_ms=...)
\* ---------------------------------------------------------------------------
LiveCall(DTs, Keys, Tss) ==
  /\ loaded["melody_core"] = "ok"
  /\ \E dt \in DTs, seed_key \in Keys, ts_ms \in Tss :
       LET r == estimate_listeners(dt, seed_key, ts_ms)
       IN  Observe([fn |-> "estimate_listeners", dt |-> dt, key |-> seed_key,
                    ts |-> ts_ms, cached |-> FALSE, value |-> r.value, dbg |-> r])
  /\ UNCHANGED <<ext, environ, loaded, rngOf, md5Of, has_cache, s01_cache, writes,
                 pc, targ, tres>>

\* ---------------------------------------------------------------------------
\* backfill_listeners.estimate_from_curve(dt, item_key), run by one thread:
\* _expected_count calls _s01, which creates and fills the cache on first use
\* ---------------------------------------------------------------------------
CurveCall(DTs, Keys) ==
  /\ loaded["backfill_listeners"] = "ok"
  /\ \A t \in Threads : pc[t] = "idle"
  /\ \E dt \in DTs, item_key \in Keys :
       LET is_weekend == weekday(dt) >= 5
           key        == CacheKey(is_weekend)
           dict0      == IF has_cache THEN s01_cache ELSE EmptyDict
           miss       == key \notin DOMAIN dict0
           dict1      == IF miss THEN DictStore(dict0, key, _precompute_norm(is_weekend))
                         ELSE dict0
           table      == dict1[key]
           base       == _expected_count(dt, table)
           jit        == _deterministic_jitter(item_key, JITTER_SIGMA, JITTER_CLIP)
           peak       == IF is_weekend THEN bf_WEEKEND_PEAK ELSE bf_WEEKDAY_PEAK
       IN  /\ has_cache' = TRUE
           /\ s01_cache' = dict1
           /\ writes' = IF miss THEN [writes EXCEPT ![key] = @ + 1] ELSE writes
           /\ Observe([fn |-> "estimate_from_curve", dt |-> dt, key |-> item_key,
                       ts |-> None, cached |-> ~miss,
                       value |-> estimate_from_curve(dt, item_key, table),
                       dbg |-> [base |-> base, jitter |-> jit, peak |-> peak,
                                night_min |-> bf_NIGHT_MIN,
                                shape |-> ShapeFromTable(table, HourOfDay(dt))]])
  /\ UNCHANGED <<ext, environ, loaded, rngOf, md5Of, pc, targ, tres>>

\* ---------------------------------------------------------------------------
\* _s01(h, is_weekend) run by several threads, one source line per step
\* (the interpreter may switch threads between any two lines)
\* ---------------------------------------------------------------------------
NoResult == [status |-> "none", is_weekend |-> FALSE, table |-> << >>, value |-> 0]

\* a thread enters _s01 (from _expected_count) with the hour and day-type of dt
StartS01(t, DTs) ==
  /\ loaded["backfill_listeners"] = "ok"
  /\ pc[t] = "idle"
  /\ \E dt \in DTs :
       targ' = [targ EXCEPT ![t] = [h |-> HourOfDay(dt), is_weekend |-> weekday(dt) >= 5]]
  /\ pc' = [pc EXCEPT ![t] = "L93"]
  /\ UNCHANGED <<ext, environ, loaded, rngOf, md5Of, has_cache, s01_cache, writes, first,
                 last, tres>>

\* if not hasattr(_s01, "_cache"):
Line93(t) ==
  /\ pc[t] = "L93"
  /\ pc' = [pc EXCEPT ![t] = IF has_cache THEN "L96" ELSE "L94"]
  /\ UNCHANGED <<ext, environ, loaded, rngOf, md5Of, has_cache, s01_cache, writes, first,
                 last, targ, tres>>

\* _s01._cache = {}
Line94(t) ==
  /\ pc[t] = "L94"
  /\ has_cache' = TRUE
  /\ s01_cache' = EmptyDict
  /\ pc' = [pc EXCEPT ![t] = "L96"]
  /\ UNCHANGED <<ext, environ, loaded, rngOf, md5Of, writes, first, last, targ, tres>>

\* key = "we" if is_weekend else "wd"; if key not in _s01._cache:
Line96(t) ==
  /\ pc[t] = "L96"
  /\ pc' = [pc EXCEPT ![t] =
              IF CacheKey(targ[t].is_weekend) \in DOMAIN s01_cache THEN "L98" ELSE "L97"]
  /\ UNCHANGED <<ext, environ, loaded, rngOf, md5Of, has_cache, s01_cache, writes, first,
                 last, targ, tres>>

\* _s01._cache[key] = _precompute_norm(is_weekend)
Line97(t) ==
  /\ pc[t] = "L97"
  /\ LET key == CacheKey(targ[t].is_weekend)
     IN  /\ s01_cache' = DictStore(s01_cache, key, _precompute_norm(targ[t].is_weekend))
         /\ writes' = [writes EXCEPT ![key] = @ + 1]
  /\ pc' = [pc EXCEPT ![t] = "L98"]
  /\ UNCHANGED <<ext, environ, loaded, rngOf, md5Of, has_cache, first, last, targ, tres>>

\* grid, day_norm = _s01._cache[key] and the rest of the function, which
\* touches nothing shared; a missing key raises KeyError
Line98(t) ==
  /\ pc[t] = "L98"
  /\ LET key == CacheKey(targ[t].is_weekend)
     IN  tres' = [tres EXCEPT ![t] =
                    IF key \in DOMAIN s01_cache
                    THEN [status |-> "ok", is_weekend |-> targ[t].is_weekend,
                          table |-> s01_cache[key],
                          value |-> ShapeFromTable(s01_cache[key], targ[t].h)]
                    ELSE [status |-> "KeyError", is_weekend |-> targ[t].is_weekend,
                          table |-> << >>, value |-> 0]]
  /\ pc' = [pc EXCEPT ![t] = "idle"]
  /\ UNCHANGED <<ext, environ, loaded, rngOf, md5Of, has_cache, s01_cache, writes, first,
                 last, targ>>

\* ---------------------------------------------------------------------------
\* Inputs
\* ---------------------------------------------------------------------------
SongKey == "Elan|Voda|13.10.2025|02:30"

OtherKey == "Team|Reklama|18.10.2025|16:00"

\* every seed string estimate_listeners can hash on the given inputs
LiveSeeds(DTs, Keys, Tss) ==
  {SlowSeed(dt, k) : dt \in DTs, k \in Keys}
    \cup {FastSeed(LiveBucket(dt, ts)) : dt \in DTs, ts \in Tss}

InitProcess ==
  /\ loaded = [m \in Modules |-> "no"]
  /\ has_cache = FALSE
  /\ s01_cache = EmptyDict
  /\ writes = [k \in {"wd", "we"} |-> 0]
  /\ first = NoCall
  /\ last = NoCall
  /\ pc = [t \in Threads |-> "idle"]
  /\ targ = [t \in Threads |-> [h |-> 0, is_weekend |-> FALSE]]
  /\ tres = [t \in Threads |-> NoResult]

\* ---------------------------------------------------------------------------
\* SpecLive: pairs of live estimates at one datetime, default parameters
\* ---------------------------------------------------------------------------
LiveDTs == {Mon0230}

LiveKeys == {"", SongKey, isoformat(Mon0230)}

LiveTs == {None, Some(0), Some(29999), Some(30000)}

InitLive ==
  /\ environ = EmptyDict
  /\ rngOf \in [LiveSeeds(LiveDTs, LiveKeys, LiveTs) -> RngDraws]
  /\ md5Of = EmptyDict
  /\ InitProcess
  /\ InitExt

NextLive ==
  \/ Load("melody_core")
  \/ LiveCall(LiveDTs, LiveKeys, LiveTs)

SpecLive == InitLive /\ [][NextLive]_vars

\* ---------------------------------------------------------------------------
\* Spec: both estimators in one process after another, default parameters
\* ---------------------------------------------------------------------------
NightDTs == {Mon0230, Sat0230}

CurveDTs == {Mon0230, Sat0230, Mon1720}

Init ==
  /\ environ = EmptyDict
  /\ rngOf \in [LiveSeeds(NightDTs, {SongKey}, {None, Some(0)}) -> RngDraws]
  /\ md5Of \in [{SongKey} -> Md5Draws]
  /\ InitProcess
  /\ InitExt

Next ==
  \/ \E m \in Modules : Load(m)
  \/ Restart
  \/ LiveCall(NightDTs, {SongKey}, {None, Some(0)})
  \/ CurveCall(CurveDTs, {SongKey})

Spec == Init /\ [][Next]_vars

\* ---------------------------------------------------------------------------
\* SpecThreads: threads calling _s01 concurrently in one process
\* ---------------------------------------------------------------------------
InitThreads ==
  /\ environ = EmptyDict
  /\ rngOf = EmptyDict
  /\ md5Of = EmptyDict
  /\ InitProcess
  /\ InitExt

NextThreads ==
  \/ Load("backfill_listeners")
  \/ \E t \in Threads :
       \/ StartS01(t, NightDTs)
       \/ Line93(t)
       \/ Line94(t)
       \/ Line96(t)
       \/ Line97(t)
       \/ Line98(t)

SpecThreads == InitThreads /\ [][NextThreads]_vars

\* ---------------------------------------------------------------------------
\* SpecEnv: the parameters overridden through the environment
\* ---------------------------------------------------------------------------
EnvTexts == {"100", "5000", "abc"}

InitEnv ==
  /\ environ \in UNION {[S -> EnvTexts] : S \in SUBSET EnvNames}
  /\ rngOf \in [LiveSeeds({Mon0230}, {SongKey}, {Some(0)}) -> RngDraws]
  /\ md5Of \in [{SongKey} -> Md5Draws]
  /\ InitProcess
  /\ InitExt

NextEnv ==
  \/ \E m \in Modules : Load(m)
  \/ LiveCall({Mon0230}, {SongKey}, {Some(0)})
  \/ CurveCall({Mon0230, Sat1600}, {SongKey})

SpecEnv == InitEnv /\ [][NextEnv]_vars

\* ---------------------------------------------------------------------------
\* SpecShape: the functions of the curve called on their own, over every
\* quarter of an hour of a weekday and of a weekend day
\* ---------------------------------------------------------------------------
\* _s01(h, is_weekend)
S01Call ==
  /\ loaded["backfill_listeners"] = "ok"
  /\ probe.fn = "call" /\ probe.of = "_s01"
  /\ LET h == probe.h
         is_weekend == probe.is_weekend
     IN  probe' = [fn |-> "_s01", h |-> h, is_weekend |-> is_weekend,
                   value |-> _s01(h, is_weekend)]
  /\ UNCHANGED <<core, response, now, _MB_LAST_CALL, mb_requests, playlist_file,
                 cache_file, enrich_calls>>

\* _expected_count(dt), with the s and the peak it computed
ExpectedCountCall ==
  /\ loaded["backfill_listeners"] = "ok"
  /\ probe.fn = "call" /\ probe.of = "_expected_count"
  /\ LET dt         == probe.dt
         is_weekend == weekday(dt) >= 5
         table      == _precompute_norm(is_weekend)
     IN  probe' = [fn |-> "_expected_count", dt |-> dt,
                     s |-> _s01(HourOfDay(dt), is_weekend),
                     peak |-> IF is_weekend THEN bf_WEEKEND_PEAK ELSE bf_WEEKDAY_PEAK,
                     night_min |-> bf_NIGHT_MIN,
                     base |-> _expected_count(dt, table)]
  /\ UNCHANGED <<core, response, now, _MB_LAST_CALL, mb_requests, playlist_file,
                 cache_file, enrich_calls>>

\* estimate_listeners(dt, seed_key=..., ts_ms=0, debug=True): its base_rel,
\* peak and base_abs
LiveBaseCall ==
  /\ loaded["melody_core"] = "ok"
  /\ probe.fn = "call" /\ probe.of = "estimate_listeners"
  /\ LET dt == probe.dt
         r  == estimate_listeners(dt, probe.seed_key, Some(0))
     IN  probe' = [fn |-> "estimate_listeners", dt |-> dt, s |-> r.base_rel,
                     peak |-> r.peak, night_min |-> r.night_min, base |-> r.base_abs]
  /\ UNCHANGED <<core, response, now, _MB_LAST_CALL, mb_requests, playlist_file,
                 cache_file, enrich_calls>>

\* hours inside and outside [0, 24): -1, 0, 2.5, 12, 14.5, 23.5, 24, 30, 50
HourProbes ==
  {-Scale, 0, NIGHT_CENTER, 12 * Scale, 14 * Scale + Scale \div 2,
   23 * Scale + Scale \div 2, 24 * Scale, 30 * Scale, 50 * Scale}

\* _circ_dist_hours(a, b)
CircDistCall ==
  /\ loaded["backfill_listeners"] = "ok"
  /\ probe.fn = "call" /\ probe.of = "_circ_dist_hours"
  /\ probe' = [fn |-> "_circ_dist_hours", a |-> probe.a, b |-> probe.b,
               value |-> _circ_dist_hours(probe.a, probe.b)]
  /\ UNCHANGED <<core, response, now, _MB_LAST_CALL, mb_requests, playlist_file,
                 cache_file, enrich_calls>>

\* the values of the lists _normalize is called with: -0.5, 0, 0.25, 1
NormValues == {-(Scale \div 2), 0, Scale \div 4, Scale}

\* the non-empty lists of up to three such values
NormInputs ==
  UNION {[1..n -> NormValues] : n \in 1..3}

\* _normalize(arr)
NormalizeCall ==
  /\ loaded["backfill_listeners"] = "ok"
  /\ probe.fn = "call" /\ probe.of = "_normalize"
  /\ probe' = [fn |-> "_normalize", arr |-> probe.arr, value |-> _normalize(probe.arr)]
  /\ UNCHANGED <<core, response, now, _MB_LAST_CALL, mb_requests, playlist_file,
                 cache_file, enrich_calls>>

\* the default parameters, a higher weekday peak, a lower night floor, and a
\* weekend peak below the night floor
ShapeEnvs ==
  {EmptyDict, [n \in {"WEEKDAY_PEAK"} |-> "5000"], [n \in {"NIGHT_MIN"} |-> "100"],
   [n \in {"WEEKEND_PEAK"} |-> "100"]}

\* the call the process is about to make, with its arguments
InitCall ==
  \/ \E h \in QuarterHours, is_weekend \in BOOLEAN :
       probe = [fn |-> "call", of |-> "_s01", h |-> h, is_weekend |-> is_weekend]
  \/ \E dt \in QuarterDTs :
       probe = [fn |-> "call", of |-> "_expected_count", dt |-> dt]
  \/ \E dt \in QuarterDTs :
       probe = [fn |-> "call", of |-> "estimate_listeners", dt |-> dt, seed_key |-> SongKey]
  \/ \E a \in HourProbes, b \in HourProbes :
       probe = [fn |-> "call", of |-> "_circ_dist_hours", a |-> a, b |-> b]
  \/ \E arr \in NormInputs :
       probe = [fn |-> "call", of |-> "_normalize", arr |-> arr]

InitShape ==
  /\ environ \in ShapeEnvs
  /\ rngOf \in [LiveSeeds(QuarterDTs, {SongKey}, {Some(0)}) -> {<<0, 5000>>}]
  /\ md5Of = EmptyDict
  /\ InitProcess
  /\ InitCall
  /\ now = 0
  /\ InitJobs

NextShape ==
  \/ \E m \in Modules : Load(m)
  \/ S01Call
  \/ ExpectedCountCall
  \/ LiveBaseCall
  \/ CircDistCall
  \/ NormalizeCall

SpecShape == InitShape /\ [][NextShape]_vars

\* ---------------------------------------------------------------------------
\* SpecWeb: app.py, GET /listeners over melody_core.get_now_playing
\* ---------------------------------------------------------------------------
\* What fetch_html meets: the fetch raises, or it returns a page.  A page has
\* a first playlist row or none; the row has its four elements (date, time,
\* artist, title) or lacks one; hhmm is what the pattern (\d{1,2}):(\d{2})
\* finds in the text of the time element.  The row of the model is
\* Elan - Voda on 13.10.2025.
Pages ==
  {[fetch |-> "raises", has_row |-> FALSE, has_all |-> FALSE, hhmm |-> None],
   [fetch |-> "ok", has_row |-> FALSE, has_all |-> FALSE, hhmm |-> None],
   [fetch |-> "ok", has_row |-> TRUE, has_all |-> FALSE, hhmm |-> None],
   [fetch |-> "ok", has_row |-> TRUE, has_all |-> TRUE, hhmm |-> None],
   [fetch |-> "ok", has_row |-> TRUE, has_all |-> TRUE, hhmm |-> Some(<<25, 10>>)],
   [fetch |-> "ok", has_row |-> TRUE, has_all |-> TRUE, hhmm |-> Some(<<2, 30>>)]}

\* parse_first_row(html): None, or the dictionary of the row
parse_first_row(page) ==
  IF ~page.has_row THEN None
  ELSE IF ~page.has_all THEN None
  ELSE IF page.hhmm = None THEN None
  ELSE Some([title |-> "Voda", artist |-> "Elan", date |-> "13.10.2025",
             time |-> Pad2(page.hhmm[1][1]) \o ":" \o Pad2(page.hhmm[1][2]),
             hh |-> page.hhmm[1][1], mm |-> page.hhmm[1][2]])

\* get_now_playing(override_ts): an exception, or the dictionary it returns
get_now_playing(page, override_ts) ==
  IF page.fetch = "raises" THEN [raised |-> TRUE, data |-> [error |-> "fetch"]]
  ELSE LET row == parse_first_row(page)
       IN  IF row = None
           THEN [raised |-> FALSE,
                 data |-> [error |-> "Nepodarilo sa ziskat aktualnu skladbu."]]
           ELSE LET r   == row[1]
                    key == r.artist \o "|" \o r.title \o "|" \o r.date \o "|" \o r.time
                IN  IF r.hh > 23 \/ r.mm > 59
                    THEN [raised |-> TRUE, data |-> [error |-> "ValueError"]]
                    ELSE [raised |-> FALSE,
                          data |-> [title |-> r.title, artist |-> r.artist,
                                    date |-> r.date, time |-> r.time,
                                    listeners |->
                                      estimate_listeners(DT(0, r.hh, r.mm), key,
                                                         override_ts).value]]

\* GET /listeners?ts=...: 503 on an exception, else 200 with
\* str(int(data.get("listeners", 0))).  cause tells what the request met.
listeners_plain(Tss) ==
  /\ loaded["melody_core"] = "ok"
  /\ \E page \in Pages, ts \in Tss :
       LET got == get_now_playing(page, ts)
           n   == IF "listeners" \in DOMAIN got.data THEN got.data.listeners ELSE 0
       IN  response' =
             [status |-> IF got.raised THEN 503 ELSE 200,
              body   |-> IF got.raised THEN "listeners unavailable" ELSE ToString(n),
              cause  |-> IF page.fetch = "raises" THEN "fetch raised"
                         ELSE IF parse_first_row(page) = None THEN "no current row"
                         ELSE IF got.raised THEN "row raised"
                         ELSE "track found"]
  /\ UNCHANGED <<core, probe, now, _MB_LAST_CALL, mb_requests, playlist_file,
                 cache_file, enrich_calls>>

WebTs == {None, Some(0), Some(30000), Some(60000)}

InitWeb ==
  /\ environ = EmptyDict
  /\ rngOf \in [LiveSeeds({Mon0230}, {SongKey}, WebTs) -> RngDraws]
  /\ md5Of = EmptyDict
  /\ InitProcess
  /\ InitExt

NextWeb ==
  \/ Load("melody_core")
  \/ listeners_plain(WebTs)

SpecWeb == InitWeb /\ [][NextWeb]_vars

\* ---------------------------------------------------------------------------
\* enrich_metadata.py: safe_get_json and mb_get_json.  Times are in tenths of
\* a second.
\* ---------------------------------------------------------------------------
\* time.time() when the process starts (_MB_LAST_CALL starts at 0.0, the epoch)
ProcessStart == 1000

\* MB_THROTTLE_SEC = float(os.environ.get("MB_THROTTLE_SEC", "1.0"))
MB_THROTTLE_SEC == EnvFloat("MB_THROTTLE_SEC", 1) * 10

RECURSIVE BackoffPow(_, _)
\* backoff ** attempt, for a backoff given in tenths
BackoffPow(backoff, attempt) ==
  IF attempt = 0 THEN 10 ELSE (BackoffPow(backoff, attempt - 1) * backoff + 5) \div 10

\* What one requests.get meets: "error" is any exception of the try block
\* (the connection, raise_for_status or r.json() raising); "object" is a
\* response whose body is a JSON object; "null" one whose body is the JSON
\* value null, for which r.json() is None.
Answers == {"object", "null"}

\* the outcomes of the attempts of one call: `fails` errors, then `answer`
OutcomesOf(fails, answer, n) == [i \in 1..n |-> IF i <= fails THEN "error" ELSE answer]

\* what r.json() gives
json(outcome) == IF outcome = "object" THEN "dict" ELSE "None"

RECURSIVE SafeGetJsonKeepsOn(_, _, _, _, _, _, _, _, _)
\* the loop going on after a request that succeeded
SafeGetJsonKeepsOn(outcomes, retries, backoff, dur, jit, attempt, t, sent, got) ==
  IF attempt >= retries THEN [result |-> got, end |-> t, sent |-> sent]
  ELSE SafeGetJsonKeepsOn(outcomes, retries, backoff, dur, jit, attempt + 1, t + dur,
                          Append(sent, t),
                          IF got = "None" /\ outcomes[attempt + 1] # "error"
                          THEN json(outcomes[attempt + 1]) ELSE got)

RECURSIVE SafeGetJsonLoop(_, _, _, _, _, _, _, _, _)
\* for attempt in range(retries): from `attempt` on, at time t, after the
\* requests sent at the times `sent`.  A request takes dur; a failed one is
\* followed by time.sleep(backoff ** attempt + random.uniform(0.0, 0.4)).
SafeGetJsonLoop(outcomes, retries, backoff, dur, jit, attempt, t, sent, got) ==
  IF attempt >= retries THEN [result |-> "None", end |-> t, sent |-> sent]
  ELSE IF outcomes[attempt + 1] # "error"
       THEN [result |-> json(outcomes[attempt + 1]), end |-> t + dur,
             sent |-> Append(sent, t)]
       ELSE SafeGetJsonLoop(outcomes, retries, backoff, dur, jit, attempt + 1,
                            t + dur + BackoffPow(backoff, attempt) + jit,
                            Append(sent, t), got)

\* safe_get_json(url, retries=..., backoff=...) entered at time t: what it
\* returns, when it returns, and when it sent its requests
safe_get_json(outcomes, retries, backoff, dur, jit, t) ==
  SafeGetJsonLoop(outcomes, retries, backoff, dur, jit, 0, t, << >>, "None")

\* ---------------------------------------------------------------------------
\* SpecHttp: one call of safe_get_json
\* ---------------------------------------------------------------------------
SafeGetJsonCall ==
  /\ probe.fn = "call" /\ probe.of = "safe_get_json"
  /\ LET r == safe_get_json(probe.outcomes, probe.retries, probe.backoff, probe.dur,
                            probe.jit, now)
     IN  /\ probe' = [fn |-> "safe_get_json", outcomes |-> probe.outcomes,
                      retries |-> probe.retries, result |-> r.result,
                      sent |-> r.sent, raised |-> FALSE]
         /\ now' = r.end
  /\ UNCHANGED <<core, response, _MB_LAST_CALL, mb_requests, playlist_file,
                 cache_file, enrich_calls>>

\* the retries the callers pass (3 and 4), and fewer
RetriesOf == {0, 1, 3, 4}

InitHttp ==
  /\ environ = EmptyDict
  /\ rngOf = EmptyDict
  /\ md5Of = EmptyDict
  /\ InitProcess
  /\ \E retries \in RetriesOf, fails \in 0..4, answer \in Answers,
        backoff \in {17, 18, 20}, dur \in {0, 3}, jit \in {0, 4} :
       /\ fails <= retries
       /\ probe = [fn |-> "call", of |-> "safe_get_json",
                   outcomes |-> OutcomesOf(fails, answer, retries),
                   retries |-> retries, backoff |-> backoff, dur |-> dur, jit |-> jit]
  /\ InitJobs
  /\ now = ProcessStart

NextHttp == SafeGetJsonCall

SpecHttp == InitHttp /\ [][NextHttp]_vars

\* ---------------------------------------------------------------------------
\* SpecMB: calls of mb_get_json, one after the other
\* ---------------------------------------------------------------------------
MaxRequests == 6

\* mb_get_json(url), called `since` after the caller's previous statement;
\* the call meets `fails` errors before an answer
mb_get_json ==
  /\ Len(mb_requests) + 4 <= MaxRequests
  /\ \E since \in {0, 4, 25}, fails \in 0..4, dur \in {0, 3}, jit \in {0, 4} :
       LET t0   == now + since
           wait == MB_THROTTLE_SEC - (t0 - _MB_LAST_CALL)
           t1   == IF wait > 0 THEN t0 + wait ELSE t0
           r    == safe_get_json(OutcomesOf(fails, "object", 4), 4, 20, dur, jit, t1)
       IN  /\ mb_requests' = mb_requests \o r.sent
           /\ _MB_LAST_CALL' = r.end
           /\ now' = r.end
  /\ UNCHANGED <<core, probe, response, playlist_file, cache_file, enrich_calls>>

InitMB ==
  /\ environ \in {EmptyDict, [n \in {"MB_THROTTLE_SEC"} |-> "3"]}
  /\ rngOf = EmptyDict
  /\ md5Of = EmptyDict
  /\ InitProcess
  /\ probe = NoProbe
  /\ InitJobs
  /\ now = ProcessStart

NextMB == mb_get_json

SpecMB == InitMB /\ [][NextMB]_vars

\* ---------------------------------------------------------------------------
\* JSON values of data/playlist.json and data/meta_cache.json.  A value is a
\* pair <<kind, content>>; a dictionary is a function from its keys.
\* ---------------------------------------------------------------------------
JNull == <<"null", << >>>>

JStr(text) == <<"str", <<text>>>>

JInt(n) == <<"int", <<ToString(n)>>>>

\* a list of strings
JList(elems) == <<"list", elems>>

\* d.get(k), None for a missing key
DictGet(d, k) == IF k \in DOMAIN d THEN d[k] ELSE JNull

\* del d[k]
DictDel(d, k) == [x \in DOMAIN d \ {k} |-> d[x]]

\* ---------------------------------------------------------------------------
\* scrape_melody.py: scrape_page and the main block
\* ---------------------------------------------------------------------------
\* LIMIT = int(os.environ.get("PLAYLIST_LIMIT", "50000"))
LIMIT == EnvFloat("PLAYLIST_LIMIT", 50000)

\* key(x) = (x.get("date"), x.get("time"), x.get("artist"), x.get("title"))
key(x) == <<DictGet(x, "date"), DictGet(x, "time"), DictGet(x, "artist"), DictGet(x, "title")>>

\* the dictionary scrape_page appends for a row (lines 92-99)
ScrapedItem(row) ==
  LET date == "13.10.2025"
      time == Pad2(row.hh) \o ":" \o Pad2(row.mm)
  IN  [station |-> JStr("Radio Melody"), title |-> JStr(row.title),
       artist |-> JStr(row.artist), date |-> JStr(date), time |-> JStr(time),
       listeners |-> JInt(estimate_listeners(DT(0, row.hh, row.mm),
                                             date \o " " \o time, None).value)]

\* scrape_page(): the items of the rows that have their four elements
scrape_page(rows) ==
  LET good == SelectSeq(rows, LAMBDA r : r.ok)
  IN  [i \in 1..Len(good) |-> ScrapedItem(good[i])]

MaxPlaylist == 3

\* python scrape_melody.py on a page of up to two rows (none when the fetch
\* failed), each with its four elements or lacking one: load, scrape, merge,
\* truncate, save
ScrapeMain ==
  /\ loaded["melody_core"] = "ok"
  /\ Len(playlist_file) <= MaxPlaylist
  /\ \E rows \in UNION {[1..n -> {[ok |-> TRUE, hh |-> 2, mm |-> 30, artist |-> "Elan", title |-> "Voda"],
                                  [ok |-> TRUE, hh |-> 17, mm |-> 20, artist |-> "Team", title |-> "Reklama"],
                                  [ok |-> FALSE, hh |-> 0, mm |-> 0, artist |-> "", title |-> ""]}]
                          : n \in 0..2} :
       LET existing == playlist_file
           items    == scrape_page(rows)
           seen     == {key(existing[i]) : i \in 1..Len(existing)}
           to_add   == SelectSeq(items, LAMBDA x : key(x) \notin seen)
           merged   == to_add \o existing
       IN  playlist_file' =
             IF items = << >> THEN playlist_file
             ELSE IF LIMIT > 0 THEN SubSeq(merged, 1, Min2(LIMIT, Len(merged))) ELSE merged
  /\ UNCHANGED <<core, probe, response, now, _MB_LAST_CALL, mb_requests, cache_file,
                 enrich_calls>>

InitScrape ==
  /\ environ \in {EmptyDict, [n \in {"PLAYLIST_LIMIT"} |-> "3"]}
  /\ rngOf \in [LiveSeeds({Mon0230, Mon1720}, {"13.10.2025 02:30", "13.10.2025 17:20"},
                          {None}) -> RngDraws]
  /\ md5Of = EmptyDict
  /\ InitProcess
  /\ InitExt

SpecScrape == InitScrape /\ [][Load("melody_core") \/ ScrapeMain]_vars

\* ---------------------------------------------------------------------------
\* enrich_metadata.py: the schema of a playlist item and run_backfill
\* ---------------------------------------------------------------------------
MAX_KEYS_PER_RUN == EnvFloat("MAX_KEYS_PER_RUN", 120)

SCALAR_FIELDS == <<"album", "release_year", "duration_ms", "artist_country">>

LIST_FIELDS == <<"lyricists", "genres">>

ALL_FIELDS == SCALAR_FIELDS \o LIST_FIELDS

\* the elements of a tuple or list
Elems(seq) == {seq[i] : i \in 1..Len(seq)}

\* v in (None, "", [], 0)
IsEmpty(v) == v \in {JNull, JStr(""), JList(<< >>), JInt(0)}

\* set(v or []) of a value that is a list or is empty
SetOrEmpty(v) == IF IsEmpty(v) THEN {} ELSE Elems(v[2])

\* sorted(names) of a set of the author and genre names of the model
sorted(names) == SelectSeq(<<"Ana", "Bob", "Pop", "Rock">>, LAMBDA n : n \in names)

\* clean_artist on the artists of the model: lower case, " feat. ..." dropped
clean_artist(s) ==
  CASE s = "Elan" -> "elan" [] s = "Elan feat. Lojzo" -> "elan"
    [] s = "Tublatanka" -> "tublatanka" [] s = "Modus" -> "modus" [] s = "Team" -> "team"

\* clean_title on the titles of the model: lower case, " - Remastered ..." dropped
clean_title(s) ==
  CASE s = "Voda" -> "voda" [] s = "Voda - Remastered 2011" -> "voda"
    [] s = "Dnes" -> "dnes" [] s = "Reklama" -> "reklama"

norm_key(artist, title) == clean_artist(artist) \o "|" \o clean_title(title)

\* norm_key(it["artist"], it["title"])
ItemKey(it) == norm_key(it["artist"][2][1], it["title"][2][1])

needs_any(item) ==
  \E k \in Elems(ALL_FIELDS) : IsEmpty(DictGet(item, k)) \/ k \notin DOMAIN item

\* fills what meta supplies and leaves the rest of the item as it is: no
\* null for a missing field, legacy composers and writers kept
apply_schema_without_nulls(item, meta) ==
  [k \in (DOMAIN item \ {"duration_sec"})
           \cup {x \in Elems(ALL_FIELDS) : ~IsEmpty(DictGet(meta, x))} |->
     IF k \in Elems(ALL_FIELDS) /\ IsEmpty(DictGet(item, k)) /\ ~IsEmpty(DictGet(meta, k))
     THEN meta[k] ELSE item[k]]

\* the item after apply_schema_with_nulls(item, meta)
apply_schema_with_nulls(item, meta) ==
  LET i1 == DictDel(item, "duration_sec")
      legacy_set == SetOrEmpty(DictGet(i1, "lyricists"))
                      \cup SetOrEmpty(DictGet(i1, "composers"))
                      \cup SetOrEmpty(DictGet(i1, "writers"))
      incoming == SetOrEmpty(DictGet(meta, "lyricists"))
      merged_authors == sorted(legacy_set \cup incoming)
      i2 == DictStore(i1, "lyricists",
                      IF merged_authors # << >> THEN JList(merged_authors) ELSE JNull)
      i3 == DictDel(DictDel(i2, "composers"), "writers")
      i4 == [k \in DOMAIN i3 \cup Elems(SCALAR_FIELDS) |->
               IF k \in Elems(SCALAR_FIELDS) /\ IsEmpty(DictGet(i3, k))
               THEN (IF ~IsEmpty(DictGet(meta, k)) THEN meta[k] ELSE JNull)
               ELSE i3[k]]
      genres_merged == sorted(SetOrEmpty(DictGet(i4, "genres"))
                                \cup SetOrEmpty(DictGet(meta, "genres")))
  IN  DictStore(i4, "genres",
                IF genres_merged # << >> THEN JList(genres_merged) ELSE JNull)

\* need_keys of run_backfill without the cut to MAX_KEYS_PER_RUN
RECURSIVE CollectKeys(_, _, _)
CollectKeys(playlist, i, acc) ==
  IF i > Len(playlist) THEN acc
  ELSE CollectKeys(playlist, i + 1,
                   IF needs_any(playlist[i]) /\ ItemKey(playlist[i]) \notin Elems(acc)
                   THEN Append(acc, ItemKey(playlist[i])) ELSE acc)

\* every key in need, whatever MAX_KEYS_PER_RUN is
need_keys_uncut(playlist) == CollectKeys(playlist, 1, << >>)

\* need_keys of run_backfill: the distinct keys of the items that need
\* something, in playlist order, cut to MAX_KEYS_PER_RUN unless that is 0
need_keys(playlist) ==
  LET all == CollectKeys(playlist, 1, << >>)
  IN  IF MAX_KEYS_PER_RUN # 0 /\ Len(all) > MAX_KEYS_PER_RUN
      THEN SubSeq(all, 1, MAX_KEYS_PER_RUN) ELSE all

\* what enrich_pair(a, t) or {} leaves in the cache: the merged metadata, or
\* {} when nothing was found or the lookup raised
EnrichResults ==
  [found   |-> [album |-> JStr("Live"), release_year |-> JInt(1999),
                lyricists |-> JList(<<"Bob">>), genres |-> JList(<<"Rock">>)],
   nothing |-> EmptyDict,
   raised  |-> EmptyDict]

\* python enrich_metadata.py: one run of run_backfill
run_backfill ==
  LET playlist == playlist_file
      cache    == cache_file
      keys     == need_keys(playlist)
      calls    == SelectSeq(keys, LAMBDA k : k \notin DOMAIN cache)
  IN  \E res \in [Elems(calls) -> DOMAIN EnrichResults] :
        LET Compared(it) ==
              [k \in Elems(ALL_FIELDS) \cup {"composers", "writers"} |-> DictGet(it, k)]
            filled  == [k \in DOMAIN cache \cup Elems(calls) |->
                          IF k \in DOMAIN cache THEN cache[k] ELSE EnrichResults[res[k]]]
            applied == [i \in 1..Len(playlist) |->
                          apply_schema_with_nulls(playlist[i],
                            IF ItemKey(playlist[i]) \in DOMAIN filled
                            THEN filled[ItemKey(playlist[i])] ELSE EmptyDict)]
            updated == \E i \in 1..Len(playlist) :
                          Compared(playlist[i]) # Compared(applied[i])
        IN  /\ enrich_calls' = calls
            /\ cache_file' = filled
            /\ playlist_file' = IF updated THEN applied ELSE playlist_file
            /\ UNCHANGED <<core, probe, response, now, _MB_LAST_CALL, mb_requests>>

\* a playlist as the scraper and earlier versions of the backfill left it, a
\* cache empty or with an entry of an earlier run
InitBackfill ==
  /\ environ \in {EmptyDict} \cup {[n \in {"MAX_KEYS_PER_RUN"} |-> v] : v \in {"0", "1", "2"}}
  /\ rngOf = EmptyDict
  /\ md5Of = EmptyDict
  /\ InitProcess
  /\ probe = NoProbe
  /\ now = 0
  /\ response = NoResponse
  /\ _MB_LAST_CALL = 0
  /\ mb_requests = << >>
  /\ enrich_calls = << >>
  /\ playlist_file \in
       LET song(a, t) == [artist |-> JStr(a), title |-> JStr(t)]
           bare     == song("Elan", "Voda")
           again    == song("Elan feat. Lojzo", "Voda - Remastered 2011")
           legacy   == song("Tublatanka", "Dnes") @@
                         [duration_sec |-> JInt(215), composers |-> JList(<<"Ana">>)]
           partial  == song("Modus", "Dnes") @@ [album |-> JStr("Best Of"), genres |-> JNull]
           complete == song("Team", "Reklama") @@
                         [album |-> JStr("Best Of"), release_year |-> JInt(1987),
                          duration_ms |-> JInt(215000), artist_country |-> JStr("SK"),
                          lyricists |-> JList(<<"Ana">>), genres |-> JList(<<"Pop">>)]
       IN  {<<bare, again, legacy, partial, complete>>,
            <<complete, partial, bare>>,
            <<legacy, complete>>}
  /\ cache_file \in {EmptyDict,
                     [k \in {"elan|voda"} |-> EmptyDict],
                     [k \in {"modus|dnes"} |-> EnrichResults["found"]]}

SpecBackfill == InitBackfill /\ [][run_backfill]_vars

ApplySchemaCall ==
  /\ probe.fn = "call"
  /\ probe.of = "apply_schema_with_nulls"
  /\ probe' = [fn |-> "apply_schema_with_nulls", item |-> probe.item, meta |-> probe.meta,
               result |-> apply_schema_with_nulls(probe.item, probe.meta)]
  /\ UNCHANGED <<core, response, now, _MB_LAST_CALL, mb_requests, playlist_file,
                 cache_file, enrich_calls>>

\* one call apply_schema_with_nulls(item, meta): the item with or without each
\* field, empty or not, with or without the legacy keys; meta as merge_meta
\* builds it
InitSchema ==
  /\ environ = EmptyDict
  /\ rngOf = EmptyDict
  /\ md5Of = EmptyDict
  /\ InitProcess
  /\ now = 0
  /\ InitJobs
  /\ LET Absent == <<"absent", << >>>>
         DictOf(f) == [k \in {x \in DOMAIN f : f[x] # Absent} |-> f[k]]
     IN
     \E al \in {Absent, JNull, JStr(""), JStr("Best Of")},
        ry \in {Absent, JInt(0), JInt(1987)},
        ds \in {Absent, JInt(215)},
        co \in {Absent, JList(<<"Ana">>)},
        wr \in {Absent, JList(<<"Bob">>)},
        ly \in {Absent, JNull, JList(<<"Bob", "Ana">>)},
        ge \in {Absent, JList(<< >>), JList(<<"Rock">>)},
        mal \in {Absent, JStr("Live")},
        mry \in {Absent, JInt(1999)},
        mly \in {Absent, JList(<<"Ana">>)},
        mge \in {Absent, JList(<<"Pop">>)} :
       probe = [fn |-> "call", of |-> "apply_schema_with_nulls",
                item |-> DictOf([artist |-> JStr("Elan"), title |-> JStr("Voda"),
                                 album |-> al, release_year |-> ry, duration_sec |-> ds,
                                 composers |-> co, writers |-> wr, lyricists |-> ly,
                                 genres |-> ge]),
                meta |-> DictOf([album |-> mal, release_year |-> mry,
                                 lyricists |-> mly, genres |-> mge])]

SpecSchema == InitSchema /\ [][ApplySchemaCall]_vars

\* ---------------------------------------------------------------------------
\* Claims
\* ---------------------------------------------------------------------------
IsLive(rec) == rec.fn = "estimate_listeners"

IsCurve(rec) == rec.fn = "estimate_from_curve"

SameArguments(a, b) == a.fn = b.fn /\ a.dt = b.dt /\ a.key = b.key /\ a.ts = b.ts

AtNightCenter(rec) == HourOfDay(rec.dt) = NIGHT_CENTER

\* C1 (as claimed): every live estimate v satisfies NIGHT_MIN <= v <= peak of
\* the day-type.
C1_LiveWithinBounds ==
  IsLive(last) => /\ last.dbg.night_min <= last.value
                  /\ last.value <= last.dbg.peak

\* C2: estimate_from_curve returns round(base * (1 + jitter)) clamped to
\* [NIGHT_MIN, peak], so NIGHT_MIN <= v <= peak.
C2_CurveClamped ==
  IsCurve(last) =>
    LET rounded == round(MulS(last.dbg.base, last.dbg.jitter))
    IN  /\ last.value = Max2(last.dbg.night_min, Min2(last.dbg.peak, rounded))
        /\ last.dbg.night_min <= last.value
        /\ last.value <= last.dbg.peak

\* C2 witness: a curve estimate whose jittered value lies above the peak and
\* is returned as the peak.
C2_Witness ==
  /\ IsCurve(last)
  /\ MulS(last.dbg.base, last.dbg.jitter) > last.dbg.peak * CountUnit
  /\ last.value = last.dbg.peak

\* C3: two calls with identical arguments return the identical integer,
\* whatever calls came between, with the cache populated or not, in the same
\* process or in a fresh one.
C3_Deterministic == SameArguments(first, last) => first.value = last.value

\* C3 witness: the same curve estimate made once on an empty cache and once
\* on a populated one.
C3_Witness ==
  /\ IsCurve(first)
  /\ SameArguments(first, last)
  /\ ~first.cached
  /\ last.cached

\* the bucket as C4 states it
ClaimedBucket(rec) ==
  IF rec.ts = None THEN timestamp(rec.dt) \div SLOW_BUCKET_S
  ELSE rec.ts[1] \div (1000 * SLOW_BUCKET_S)

C5_SeedHoldsKeyAndBucket ==
  (IsLive(first) /\ IsLive(last) /\ first.dt = last.dt) =>
    /\ (first.key # last.key /\ first.dbg.bucket = last.dbg.bucket) =>
         /\ first.dbg.slow_seed # last.dbg.slow_seed
         /\ first.dbg.fast_seed # last.dbg.fast_seed
    /\ (first.key = last.key /\ first.dbg.bucket # last.dbg.bucket) =>
         /\ first.dbg.slow_seed # last.dbg.slow_seed
         /\ first.dbg.fast_seed # last.dbg.fast_seed

\* seed_key or dt.isoformat(): the key the slow jitter is seeded with
EffectiveKey(rec) == IF rec.key = "" THEN isoformat(rec.dt) ELSE rec.key

\* C5 (amended): the two jitters are seeded separately.  The slow seed holds
\* the identity key (dt.isoformat() for an empty key) and not the bucket; the
\* fast seed holds the bucket and not the key.  Two calls have different slow
\* seeds exactly when their effective keys differ, and different fast seeds
\* exactly when their buckets differ.
C5_SeedsSeparate ==
  (IsLive(first) /\ IsLive(last)) =>
    /\ (first.dbg.slow_seed # last.dbg.slow_seed) <=> (EffectiveKey(first) # EffectiveKey(last))
    /\ (first.dbg.fast_seed # last.dbg.fast_seed) <=> (first.dbg.bucket # last.dbg.bucket)
    /\ last.dbg.slow_eps = _clipped_gauss(rngOf[last.dbg.slow_seed], SLOW_SIGMA, SLOW_CLIP)
    /\ last.dbg.fast_eps = _clipped_gauss(rngOf[last.dbg.fast_seed], FAST_SIGMA, FAST_CLIP)

\* C5 witness: only the identity key changed; the slow seed changed with it
\* and the fast seed did not.
C5_Witness ==
  /\ IsLive(first) /\ IsLive(last)
  /\ first.dt = last.dt
  /\ first.key # last.key
  /\ first.key # "" /\ last.key # ""
  /\ first.dbg.bucket = last.dbg.bucket
  /\ first.dbg.slow_seed # last.dbg.slow_seed
  /\ first.dbg.fast_seed = last.dbg.fast_seed

\* C6 (as claimed): no concurrent call of _s01 raises, and each uses the table
\* _precompute_norm(is_weekend) of its own day-type.
C6_NoCorruption ==
  \A t \in Threads :
    /\ tres[t].status # "KeyError"
    /\ tres[t].status = "ok" => tres[t].table = _precompute_norm(tres[t].is_weekend)

\* C7 (as claimed): each cache entry is written at most once, and an entry once
\* written is never removed or replaced.
C7_PopulatedOnce ==
  \A k \in {"wd", "we"} :
    /\ writes[k] <= 1
    /\ writes[k] >= 1 => (has_cache /\ k \in DOMAIN s01_cache)

\* C8: _clipped_gauss returns x with |x| <= clip, and _deterministic_jitter
\* returns 1 + eps with |eps| <= JITTER_CLIP.
C8_JitterBounded ==
  /\ IsLive(last) => /\ Abs(last.dbg.slow_eps) <= SLOW_CLIP
                     /\ Abs(last.dbg.fast_eps) <= FAST_CLIP
  /\ IsCurve(last) => Abs(last.dbg.jitter - Scale) <= JITTER_CLIP

\* C8 witness: a live estimate whose raw slow sample lies beyond the clip,
\* after a curve estimate whose jitter sits on the clip.
C8_Witness ==
  /\ IsCurve(first)
  /\ Abs(first.dbg.jitter - Scale) = JITTER_CLIP
  /\ IsLive(last)
  /\ Abs(gauss(rngOf[last.dbg.slow_seed], 0, SLOW_SIGMA)) > SLOW_CLIP
  /\ Abs(last.dbg.slow_eps) = SLOW_CLIP

\* C9 (as claimed): at the night center hour the result is within the jitter
\* clip of the night floor, |result - NIGHT_MIN| <= JITTER_CLIP * NIGHT_MIN.
C9_NightFloor ==
  ((IsLive(last) \/ IsCurve(last)) /\ AtNightCenter(last)) =>
    Abs(last.value - last.dbg.night_min) * Scale <= JITTER_CLIP * last.dbg.night_min

\* half a listener of rounding, and a tenth for the fixed-point products
RoundingSlack == (CountUnit \div 2 + 1) * Scale

\* C9 (amended): at the night center hour the result is within the jitter
\* clip, up to rounding, of the baseline of the curve at that hour.  For
\* estimate_from_curve the baseline is NIGHT_MIN + s * (peak - NIGHT_MIN)
\* with the floored shape s = NIGHT_SFLOOR * wobble; for estimate_listeners
\* it is NIGHT_MIN (to a tenth) and the clip is SLOW_CLIP + FAST_CLIP.
C9_NightBaseline ==
  /\ (IsCurve(last) /\ AtNightCenter(last)) =>
       /\ last.dbg.shape = MulS(NIGHT_SFLOOR, Wobble(NIGHT_CENTER))
       /\ last.dbg.base = last.dbg.night_min * CountUnit
                            + MulS(last.dbg.shape,
                                   (last.dbg.peak - last.dbg.night_min) * CountUnit)
       /\ Abs(last.value * CountUnit - last.dbg.base) * Scale
            <= JITTER_CLIP * last.dbg.base + RoundingSlack
  /\ (IsLive(last) /\ AtNightCenter(last)) =>
       /\ Abs(last.dbg.base_abs - last.dbg.night_min * CountUnit) <= 1
       /\ Abs(last.value * CountUnit - last.dbg.base_abs) * Scale
            <= (SLOW_CLIP + FAST_CLIP) * last.dbg.base_abs + RoundingSlack

\* C9 witness: a weekday curve estimate at 02:30 with the jitter on the upper
\* clip, about twice the night floor.
C9_Witness ==
  /\ IsCurve(last)
  /\ last.dt = Mon0230
  /\ last.dbg.jitter = Scale + JITTER_CLIP
  /\ last.value > 2 * last.dbg.night_min

\* the parameters module m reads do not put a peak at or below the night floor
WellFormed(m) ==
  IF m = "melody_core"
  THEN core_WEEKDAY_PEAK > core_NIGHT_MIN /\ core_WEEKEND_PEAK > core_NIGHT_MIN
  ELSE bf_WEEKDAY_PEAK > bf_NIGHT_MIN /\ bf_WEEKEND_PEAK > bf_NIGHT_MIN

\* C10 (as claimed): a parameter set with a peak not above the night floor
\* fails the module at load time, and no estimate runs with it.
C10_MalformedRejected ==
  /\ \A m \in Modules : loaded[m] = "ok" => WellFormed(m)
  /\ (IsLive(last) \/ IsCurve(last)) => last.dbg.peak > last.dbg.night_min

\* the damped shape before the floor: day_norm[idx] * _night_depressor(h)
DampedShape(h, is_weekend) ==
  MulS(_precompute_norm(is_weekend)[2][NearestIndexAt[h]], NightDepressorAt[h])

\* C11: for every hour and both day-types the shape returned by _s01 lies in
\* [NIGHT_SFLOOR, 1]; with the default positive floor it is never zero.
C11_ShapeInRange ==
  probe.fn = "_s01" =>
    /\ NIGHT_SFLOOR <= probe.value
    /\ probe.value <= Scale
    /\ probe.value > 0

\* C11 witness: a night hour whose damped shape lies below the floor and is
\* returned at or above it.
C11_Witness ==
  /\ probe.fn = "_s01"
  /\ DampedShape(probe.h, probe.is_weekend) < NIGHT_SFLOOR
  /\ probe.value >= NIGHT_SFLOOR

\* a probe of the scale mapper, in _expected_count or in estimate_listeners
IsBase(p) == p.fn \in {"_expected_count", "estimate_listeners"}

\* C12: for a shape s in [0,1] and peak > NIGHT_MIN, the baseline
\* base = NIGHT_MIN + s * (peak - NIGHT_MIN) satisfies NIGHT_MIN <= base <= peak,
\* in _expected_count and in the base_abs of estimate_listeners.
C12_BaseInRange ==
  (IsBase(probe) /\ 0 <= probe.s /\ probe.s <= Scale /\ probe.peak > probe.night_min) =>
    /\ probe.base = probe.night_min * CountUnit
                      + MulS(probe.s, (probe.peak - probe.night_min) * CountUnit)
    /\ probe.night_min * CountUnit <= probe.base
    /\ probe.base <= probe.peak * CountUnit

\* C12 witness: a weekday _expected_count with overridden parameters whose
\* shape is above 0.9, strictly between the floor and the peak.
C12_Witness ==
  /\ probe.fn = "_expected_count"
  /\ environ # EmptyDict
  /\ probe.peak > probe.night_min
  /\ probe.s > 9 * (Scale \div 10)
  /\ probe.base > probe.night_min * CountUnit
  /\ probe.base <= probe.peak * CountUnit

\* the wrap-around distance on the 24-hour circle between a mod 24 and b mod 24
CircleDistance(a, b) ==
  LET d == Abs((a % (24 * Scale)) - (b % (24 * Scale)))
  IN  Min2(d, 24 * Scale - d)

\* C13 (as claimed): for every hour value, also outside [0,24),
\* _circ_dist_hours returns the wrap-around distance on the 24-hour circle: a
\* value in [0,12], symmetric in its arguments.
C13_CircularDistance ==
  probe.fn = "_circ_dist_hours" =>
    /\ 0 <= probe.value
    /\ probe.value <= 12 * Scale
    /\ probe.value = CircleDistance(probe.a, probe.b)
    /\ probe.value = _circ_dist_hours(probe.b, probe.a)

\* C14: _normalize never divides by zero: a list of equal values gives 0 at
\* every position; any other list gives values in [0,1] with the minimum at 0
\* and the maximum at 1.
C14_NormalizeTotal ==
  probe.fn = "_normalize" =>
    LET arr   == probe.arr
        out   == probe.value
        a_min == SeqMin(arr, 1, Len(arr))
        a_max == SeqMax(arr, 1, Len(arr))
    IN  /\ Len(out) = Len(arr)
        /\ (a_min = a_max) => \A i \in 1..Len(arr) : out[i] = 0
        /\ (a_min # a_max) =>
             \A i \in 1..Len(arr) :
               /\ 0 <= out[i] /\ out[i] <= Scale
               /\ arr[i] = a_min => out[i] = 0
               /\ arr[i] = a_max => out[i] = Scale

\* C14 witness: a list of three equal non-zero values, returned as zeros.
C14_Witness ==
  /\ probe.fn = "_normalize"
  /\ Len(probe.arr) = 3
  /\ \A i \in 1..3 : probe.arr[i] = Scale /\ probe.value[i] = 0

\* C15 (as claimed): GET /listeners answers 503 whenever the current track
\* cannot be determined, when the fetch raises and when no current row can be
\* parsed; it never answers 200 with a listener count then.
C15_Unavailable503 ==
  response.cause \in {"fetch raised", "no current row"} =>
    /\ response.status = 503
    /\ response.status # 200

\* the requests of the probe that did not fail, by their attempt numbers
Answered(p) == {i \in 1..p.retries : p.outcomes[i] # "error"}

\* the first request that succeeded, when there is one
FirstAnswered(p) == CHOOSE i \in Answered(p) : \A j \in Answered(p) : i <= j

\* C16 (as claimed): consecutive MusicBrainz requests are at least
\* MB_THROTTLE_SEC apart, the retries inside one call included.
C16_Throttled ==
  \A i \in 1..(Len(mb_requests) - 1) :
    mb_requests[i + 1] - mb_requests[i] >= MB_THROTTLE_SEC

\* C17 (as claimed): at most `retries` requests, the JSON of the first
\* request that succeeds and no request after it, None exactly when all
\* `retries` requests fail, and no exception to the caller.
C17_NoneOnlyWhenAllFail ==
  probe.fn = "safe_get_json" =>
    /\ Len(probe.sent) <= probe.retries
    /\ ~probe.raised
    /\ Answered(probe) # {} =>
         /\ Len(probe.sent) = FirstAnswered(probe)
         /\ probe.result = json(probe.outcomes[FirstAnswered(probe)])
    /\ (probe.result = "None") <=> (Answered(probe) = {})

\* C17 (amended): at most `retries` requests, none after the first that
\* succeeds, whose r.json() is returned; all `retries` requests are made when
\* every one fails, and None is returned then.  None is also returned when
\* the first successful response has the JSON body null.
C17_StopsAtFirstAnswer ==
  probe.fn = "safe_get_json" =>
    /\ Len(probe.sent) <= probe.retries
    /\ ~probe.raised
    /\ Answered(probe) # {} =>
         /\ Len(probe.sent) = FirstAnswered(probe)
         /\ probe.result = json(probe.outcomes[FirstAnswered(probe)])
    /\ Answered(probe) = {} =>
         /\ Len(probe.sent) = probe.retries
         /\ probe.result = "None"
    /\ (probe.result = "None") <=>
         \/ Answered(probe) = {}
         \/ probe.outcomes[FirstAnswered(probe)] = "null"

\* C17 witness: a call with four retries whose first two requests fail and
\* whose third returns a JSON object: three requests, the object returned.
C17_Witness ==
  /\ probe.fn = "safe_get_json"
  /\ probe.retries = 4
  /\ probe.outcomes[1] = "error" /\ probe.outcomes[2] = "error"
  /\ probe.outcomes[3] = "object"
  /\ Len(probe.sent) = 3
  /\ probe.result = "dict"

\* C18 (as claimed): starting from a file without two entries of the same
\* (date, time, artist, title), the playlist saved by the scraper never holds
\* two entries with the same key, whatever rows the page contains.
C18_UniqueKeys ==
  \A i, j \in 1..Len(playlist_file) :
    key(playlist_file[i]) = key(playlist_file[j]) => i = j

\* C19: in one run_backfill run enrich_pair is called for distinct keys, for
\* at most MAX_KEYS_PER_RUN of them unless MAX_KEYS_PER_RUN is 0, and never
\* for a key that the cache held when the run began, an empty entry included.
C19_LimitedFreshKeys ==
  [][/\ \A i, j \in 1..Len(enrich_calls') : enrich_calls'[i] = enrich_calls'[j] => i = j
     /\ MAX_KEYS_PER_RUN # 0 => Len(enrich_calls') <= MAX_KEYS_PER_RUN
     /\ \A i \in 1..Len(enrich_calls') : enrich_calls'[i] \notin DOMAIN cache_file]_vars

\* C19 witness: with MAX_KEYS_PER_RUN = 2 and three keys in need, a run has
\* called enrich_pair for the second key only: the first was cached as {} by
\* an earlier failed lookup, the third lies beyond the limit.
C19_Witness ==
  /\ MAX_KEYS_PER_RUN = 2
  /\ enrich_calls = <<"tublatanka|dnes">>
  /\ "elan|voda" \in DOMAIN cache_file
  /\ cache_file["elan|voda"] = EmptyDict
  /\ "modus|dnes" \notin DOMAIN cache_file
  /\ Len(playlist_file) = 5

\* C20: after apply_schema_with_nulls(item, meta) the item has every key of
\* ALL_FIELDS, a field for which neither the item (for the authors: under
\* lyricists, composers or writers) nor meta supplies a non-empty value is
\* null, the keys duration_sec, composers and writers are gone, and every
\* scalar field that was not empty in the item has the value it had.
C20_SchemaApplied ==
  probe.fn = "apply_schema_with_nulls" =>
    LET item == probe.item
        meta == probe.meta
        out  == probe.result
        supplied(k) ==
          \/ ~IsEmpty(DictGet(item, k))
          \/ ~IsEmpty(DictGet(meta, k))
          \/ k = "lyricists" /\ (~IsEmpty(DictGet(item, "composers"))
                                   \/ ~IsEmpty(DictGet(item, "writers")))
    IN  /\ \A k \in Elems(ALL_FIELDS) : k \in DOMAIN out /\ (~supplied(k) => out[k] = JNull)
        /\ DOMAIN out \cap {"duration_sec", "composers", "writers"} = {}
        /\ \A k \in Elems(SCALAR_FIELDS) :
             ~IsEmpty(DictGet(item, k)) => k \in DOMAIN out /\ out[k] = item[k]

\* C20 witness: an item with the three legacy keys, a non-empty album, an
\* empty release_year and no genres, and a meta without genres, has been
\* through apply_schema_with_nulls: genres is null, the album is the item's.
C20_Witness ==
  /\ probe.fn = "apply_schema_with_nulls"
  /\ {"duration_sec", "composers", "writers"} \subseteq DOMAIN probe.item
  /\ DictGet(probe.item, "album") = JStr("Best Of")
  /\ "album" \in DOMAIN probe.meta
  /\ DictGet(probe.item, "release_year") = JInt(0)
  /\ "genres" \notin DOMAIN probe.item \cup DOMAIN probe.meta
  /\ probe.result["genres"] = JNull
  /\ probe.result["album"] = JStr("Best Of")

====
